---- MODULE Spec2Model ----
(***************************************************************************)
(* Auto Deck ID Manager: the 'Deck ID' label ("Deck_Name@00000") that the  *)
(* add-on keeps on every note, and the operations that assign, swap and    *)
(* renumber it (src/deck_id_manager.py, src/browser_id_manager.py).        *)
(*                                                                         *)
(* A label is a sequence of one-character strings, so that splitting on    *)
(* '@', int(), isdigit(), zfill() and Python's string comparison are       *)
(* computed as the code computes them.  A note of the collection is a      *)
(* record [deck, hasField, label]; the collection is the sequence of its   *)
(* notes in the order the store returns them (find_notes, decks.cids), and *)
(* a note's position is its identifier.  A note has one card, or two (a     *)
(* note type with a reversed card), both in the note's deck: the first     *)
(* card carries the note's identifier, the second that identifier plus     *)
(* MaxRecords.                                                             *)
(***************************************************************************)
EXTENDS Integers, Sequences, FiniteSets, TLC

VARIABLES
    store,   \* the collection: Seq of [deck, hasField, label, twin]
    view,    \* visible_card_ids of the open browser dialog (<<>>: none open)
    view0,   \* the labels the dialog showed, position by position, when it opened
    last,    \* the last operation: its name, arguments, result and writes
    codec    \* the codec round trip's input and outputs (SpecCodec)

vars == <<store, view, view0, last, codec>>

----------------------------------------------------------------------------
(* Bounds                                                                  *)

\* the notes a collection starts with, and the notes it grows to
MaxInitNotes == 2
MaxRecords == 3

(* Program constants                                                       *)

PadWidth == 5

DeckIds == {1, 2}

\* mw.col.decks.get(deck_id)['name']
DeckName(d) == IF d = 1 THEN <<"A">> ELSE <<"B">>

----------------------------------------------------------------------------
(* Python's str operations on labels                                       *)

Digits == {"0", "1", "2", "3", "4", "5", "6", "7", "8", "9"}

DigitVal(c) ==
    CASE c = "0" -> 0 [] c = "1" -> 1 [] c = "2" -> 2 [] c = "3" -> 3
      [] c = "4" -> 4 [] c = "5" -> 5 [] c = "6" -> 6 [] c = "7" -> 7
      [] c = "8" -> 8 [] c = "9" -> 9

DigitChar(n) ==
    CASE n = 0 -> "0" [] n = 1 -> "1" [] n = 2 -> "2" [] n = 3 -> "3"
      [] n = 4 -> "4" [] n = 5 -> "5" [] n = 6 -> "6" [] n = 7 -> "7"
      [] n = 8 -> "8" [] n = 9 -> "9"

\* ord(c) for the characters labels are made of here
CodePoint(c) ==
    CASE c = "+" -> 43 [] c = "-" -> 45 [] c = "@" -> 64
      [] c = "A" -> 65 [] c = "B" -> 66 [] c = "x" -> 120
      [] OTHER -> 48 + DigitVal(c)

\* str(n), n >= 0
RECURSIVE Str(_)
Str(n) == IF n < 10 THEN <<DigitChar(n)>>
          ELSE Str(n \div 10) \o <<DigitChar(n % 10)>>

\* s.zfill(w), s without a sign
RECURSIVE ZFill(_, _)
ZFill(s, w) == IF Len(s) >= w THEN s ELSE ZFill(<<"0">> \o s, w)

\* the position of the last '@' of s, 0 when there is none
LastAt(s) ==
    LET at == {i \in 1..Len(s) : s[i] = "@"}
    IN  IF at = {} THEN 0 ELSE CHOOSE i \in at : \A j \in at : j <= i

\* a variant that splits at the first '@': s.split('@')[0]
SplitFirstHead(s) ==
    LET at == {i \in 1..Len(s) : s[i] = "@"}
    IN  IF at = {} THEN s
        ELSE SubSeq(s, 1, (CHOOSE i \in at : \A j \in at : i <= j) - 1)

\* s.rsplit('@', 1)[0]
RSplitHead(s) == IF LastAt(s) = 0 THEN s ELSE SubSeq(s, 1, LastAt(s) - 1)

\* s.rsplit('@', 1)[-1]
RSplitTail(s) == IF LastAt(s) = 0 THEN s ELSE SubSeq(s, LastAt(s) + 1, Len(s))

\* s.split('@')[-1]
SplitLast(s) == SubSeq(s, LastAt(s) + 1, Len(s))

\* '@' in s
HasAt(s) == \E i \in 1..Len(s) : s[i] = "@"

\* s.isdigit()
IsDigit(s) == Len(s) > 0 /\ \A i \in 1..Len(s) : s[i] \in Digits

RECURSIVE DigitsVal(_)
DigitsVal(s) == IF Len(s) = 0 THEN 0
                ELSE 10 * DigitsVal(SubSeq(s, 1, Len(s) - 1)) + DigitVal(s[Len(s)])

\* int(s) does not raise ValueError: an optional sign, then digits
IntParsable(s) ==
    IF Len(s) > 0 /\ s[1] \in {"+", "-"} THEN IsDigit(Tail(s)) ELSE IsDigit(s)

\* int(s)
IntOf(s) ==
    IF s[1] = "-" THEN 0 - DigitsVal(Tail(s))
    ELSE IF s[1] = "+" THEN DigitsVal(Tail(s))
    ELSE DigitsVal(s)

\* s < t for Python strings
RECURSIVE StrLess(_, _)
StrLess(s, t) ==
    IF Len(t) = 0 THEN FALSE
    ELSE IF Len(s) = 0 THEN TRUE
    ELSE IF s[1] = t[1] THEN StrLess(Tail(s), Tail(t))
    ELSE CodePoint(s[1]) < CodePoint(t[1])

\* f"{prefix}@{str(i).zfill(5)}"
FormatLabel(prefix, i) == prefix \o <<"@">> \o ZFill(Str(i), PadWidth)

----------------------------------------------------------------------------
(* The collection                                                          *)

\* a note with one card
Note(d, h, l) == [deck |-> d, hasField |-> h, label |-> l, twin |-> FALSE]

\* the same note with a second card
TwoCards(n) == [n EXCEPT !.twin = TRUE]

\* card.note(): the note a card belongs to
NoteOf(c) == IF c > MaxRecords THEN c - MaxRecords ELSE c

\* the cards of the collection in the order of their identifiers: the cards of
\* one note are created together
RECURSIVE AllCards(_)
AllCards(s) ==
    IF s = <<>> THEN <<>>
    ELSE LET n == Len(s)
         IN  AllCards(SubSeq(s, 1, n - 1))
                 \o (IF s[n].twin THEN <<n, n + MaxRecords>> ELSE <<n>>)

\* a variant that takes the cards of every deck
CidsOfAnyDeck(s, g) == AllCards(s)

\* mw.col.decks.cids(deck_id, children=False)
CidsOf(s, g) == SelectSeq(AllCards(s), LAMBDA c : s[NoteOf(c)].deck = g)

\* mw.col.update_note(note) of a note whose 'Deck ID' was set to l
UpdateNote(s, c, l) == [s EXCEPT ![c].label = l]

----------------------------------------------------------------------------
(* reorder_deck_ids(deck_id): the sweep of one deck                        *)

\* the sort key of a card: int(note['Deck ID'].split('@')[-1])
IndexKey(s, c) == IntOf(SplitLast(s[NoteOf(c)].label))

\* the sort key raises: KeyError (no 'Deck ID' field) or ValueError (int)
IndexKeyRaises(s, c) ==
    ~s[NoteOf(c)].hasField \/ ~IntParsable(SplitLast(s[NoteOf(c)].label))

\* a variant that sorts in descending order
InsertByIndexDescending(s, acc, c) ==
    LET later == {i \in 1..Len(acc) : IndexKey(s, acc[i]) < IndexKey(s, c)}
        k == IF later = {} THEN Len(acc) + 1
             ELSE CHOOSE i \in later : \A j \in later : i <= j
    IN  SubSeq(acc, 1, k - 1) \o <<c>> \o SubSeq(acc, k, Len(acc))

\* c put into acc, which is sorted by IndexKey, after the cards whose key is
\* not larger (sorted() is stable)
InsertByIndex(s, acc, c) ==
    LET later == {i \in 1..Len(acc) : IndexKey(s, acc[i]) > IndexKey(s, c)}
        k == IF later = {} THEN Len(acc) + 1
             ELSE CHOOSE i \in later : \A j \in later : i <= j
    IN  SubSeq(acc, 1, k - 1) \o <<c>> \o SubSeq(acc, k, Len(acc))

RECURSIVE SortedByIndex(_, _)
SortedByIndex(s, cards) ==
    IF cards = <<>> THEN <<>>
    ELSE InsertByIndex(s, SortedByIndex(s, SubSeq(cards, 1, Len(cards) - 1)),
                       cards[Len(cards)])

\* the loop over sorted_cards from position i on; w writes were made so far and
\* the store rejects write number failAt (0: none).  The exception of a rejected
\* write ends the loop and is caught by the except clause.
RECURSIVE SweepLoop(_, _, _, _, _)
SweepLoop(s, sorted, i, w, failAt) ==
    IF i > Len(sorted) THEN [store |-> s, writes |-> w, failed |-> FALSE]
    ELSE LET c == NoteOf(sorted[i])
             field == s[c].label
         IN  IF s[c].hasField /\ field # <<>>
             THEN IF failAt = w + 1
                  THEN [store |-> s, writes |-> w, failed |-> TRUE]
                  ELSE SweepLoop(UpdateNote(s, c, FormatLabel(RSplitHead(field), i)),
                                 sorted, i + 1, w + 1, failAt)
             ELSE SweepLoop(s, sorted, i + 1, w, failAt)

\* reorder_deck_ids(deck_id): when a sort key raises, the except clause is
\* reached before any note is written
ReorderDeckIds(s, g, failAt) ==
    LET cards == CidsOf(s, g)
    IN  IF \E i \in 1..Len(cards) : IndexKeyRaises(s, cards[i])
        THEN [store |-> s, writes |-> 0, failed |-> FALSE]
        ELSE SweepLoop(s, SortedByIndex(s, cards), 1, 0, failAt)

----------------------------------------------------------------------------
(* get_max_deck_index, add_deck_index_field                                *)

\* the note counts for the maximum: a non-empty field with an '@' and a digit
\* suffix
CountsForMax(n) ==
    n.hasField /\ n.label # <<>> /\ HasAt(n.label) /\ IsDigit(SplitLast(n.label))

\* the scan of get_max_deck_index over the deck's cards (after its sweep)
MaxIndexOf(s, g) ==
    LET idx == {IntOf(SplitLast(s[c].label)) :
                   c \in {c \in 1..Len(s) : s[c].deck = g /\ CountsForMax(s[c])}}
    IN  IF idx = {} THEN 0 ELSE CHOOSE m \in idx : \A k \in idx : k <= m

\* get_max_deck_index(deck_id): the sweep, then the scan
GetMaxDeckIndex(s, g, failAt) ==
    LET r == ReorderDeckIds(s, g, failAt)
    IN  [store |-> r.store, writes |-> r.writes, failed |-> r.failed,
         max |-> MaxIndexOf(r.store, g)]

\* add_deck_index_field(note, deck_id), and the host adding the note to the deck
AddDeckIndexField(s, g, failAt) ==
    LET r == GetMaxDeckIndex(s, g, failAt)
    IN  [store |-> Append(r.store, Note(g, TRUE, FormatLabel(DeckName(g), r.max + 1))),
         writes |-> r.writes, failed |-> r.failed]

----------------------------------------------------------------------------
(* verify_and_add_deck_ids(): the reconciliation at startup                *)

\* the sort key of a note: its 'Deck ID', '' without the field
LabelKey(s, n) == IF s[n].hasField THEN s[n].label ELSE <<>>

\* a variant that sorts in descending order
InsertByLabelDescending(s, acc, n) ==
    LET later == {i \in 1..Len(acc) : StrLess(LabelKey(s, acc[i]), LabelKey(s, n))}
        k == IF later = {} THEN Len(acc) + 1
             ELSE CHOOSE i \in later : \A j \in later : i <= j
    IN  SubSeq(acc, 1, k - 1) \o <<n>> \o SubSeq(acc, k, Len(acc))

\* a variant that does not sort
InsertAtEnd(s, acc, n) == Append(acc, n)

InsertByLabel(s, acc, n) ==
    LET later == {i \in 1..Len(acc) : StrLess(LabelKey(s, n), LabelKey(s, acc[i]))}
        k == IF later = {} THEN Len(acc) + 1
             ELSE CHOOSE i \in later : \A j \in later : i <= j
    IN  SubSeq(acc, 1, k - 1) \o <<n>> \o SubSeq(acc, k, Len(acc))

RECURSIVE SortedByLabel(_, _)
SortedByLabel(s, notes) ==
    IF notes = <<>> THEN <<>>
    ELSE InsertByLabel(s, SortedByLabel(s, SubSeq(notes, 1, Len(notes) - 1)),
                       notes[Len(notes)])

\* a variant with one counter for all decks
RECURSIVE VerifyLoopShared(_, _, _, _, _, _)
VerifyLoopShared(s, sorted, i, counters, w, failAt) ==
    IF i > Len(sorted) THEN [store |-> s, writes |-> w, failed |-> FALSE]
    ELSE LET n == sorted[i]
             d == s[n].deck
             cnt == [g \in DeckIds |-> counters[g] + 1]
             expected == FormatLabel(DeckName(d), cnt[d])
         IN  IF ~s[n].hasField
             THEN VerifyLoopShared(s, sorted, i + 1, counters, w, failAt)
             ELSE IF s[n].label # expected
             THEN IF failAt = w + 1
                  THEN [store |-> s, writes |-> w, failed |-> TRUE]
                  ELSE VerifyLoopShared(UpdateNote(s, n, expected), sorted, i + 1,
                                        cnt, w + 1, failAt)
             ELSE VerifyLoopShared(s, sorted, i + 1, cnt, w, failAt)

\* the loop over sorted_notes from position i on; counters is deck_counters
\* (0: the deck is not in it yet; decks have distinct names).  A rejected write
\* raises out of the function.
RECURSIVE VerifyLoop(_, _, _, _, _, _)
VerifyLoop(s, sorted, i, counters, w, failAt) ==
    IF i > Len(sorted) THEN [store |-> s, writes |-> w, failed |-> FALSE]
    ELSE LET n == sorted[i]
             d == s[n].deck
             cnt == [counters EXCEPT ![d] = @ + 1]
             expected == FormatLabel(DeckName(d), cnt[d])
         IN  IF ~s[n].hasField
             THEN VerifyLoop(s, sorted, i + 1, counters, w, failAt)
             ELSE IF s[n].label # expected
             THEN IF failAt = w + 1
                  THEN [store |-> s, writes |-> w, failed |-> TRUE]
                  ELSE VerifyLoop(UpdateNote(s, n, expected), sorted, i + 1, cnt,
                                  w + 1, failAt)
             ELSE VerifyLoop(s, sorted, i + 1, cnt, w, failAt)

VerifyAndAddDeckIds(s, failAt) ==
    VerifyLoop(s, SortedByLabel(s, [i \in 1..Len(s) |-> i]), 1,
               [d \in DeckIds |-> 0], 0, failAt)

----------------------------------------------------------------------------
(* update_deck_ids_after_swap(card_a, card_b)                              *)

\* a variant that reads a's suffix after a was rewritten
UpdateDeckIdsAfterSwapReread(s, a, b, failAt) ==
    IF ~s[a].hasField \/ ~s[b].hasField
    THEN [store |-> s, res |-> "raise", writes |-> 0]
    ELSE LET prefix_a == RSplitHead(s[a].label)
             prefix_b == RSplitHead(s[b].label)
             suffix_b == RSplitTail(s[b].label)
             s1 == UpdateNote(s, a, prefix_a \o <<"@">> \o suffix_b)
             suffix_a == RSplitTail(s1[a].label)
             s2 == UpdateNote(s1, b, prefix_b \o <<"@">> \o suffix_a)
         IN  IF prefix_a # prefix_b
             THEN [store |-> s, res |-> "false", writes |-> 0]
             ELSE IF failAt = 1 THEN [store |-> s, res |-> "raise", writes |-> 0]
             ELSE IF failAt = 2 THEN [store |-> s1, res |-> "raise", writes |-> 1]
             ELSE [store |-> s2, res |-> "true", writes |-> 2]

\* a variant that restores a's label when the write of b is rejected
UpdateDeckIdsAfterSwapRollback(s, a, b, failAt) ==
    IF ~s[a].hasField \/ ~s[b].hasField
    THEN [store |-> s, res |-> "raise", writes |-> 0]
    ELSE LET prefix_a == RSplitHead(s[a].label)
             prefix_b == RSplitHead(s[b].label)
             suffix_b == RSplitTail(s[b].label)
             suffix_a == RSplitTail(s[a].label)
             s1 == UpdateNote(s, a, prefix_a \o <<"@">> \o suffix_b)
             s2 == UpdateNote(s1, b, prefix_b \o <<"@">> \o suffix_a)
         IN  IF prefix_a # prefix_b
             THEN [store |-> s, res |-> "false", writes |-> 0]
             ELSE IF failAt = 1 THEN [store |-> s, res |-> "raise", writes |-> 0]
             ELSE IF failAt = 2 THEN [store |-> s, res |-> "raise", writes |-> 0]
             ELSE [store |-> s2, res |-> "true", writes |-> 2]

\* res: "true", "false", or "raise" (KeyError of a note without the field, or
\* the store's rejection of write number failAt)
UpdateDeckIdsAfterSwap(s, a, b, failAt) ==
    IF ~s[a].hasField \/ ~s[b].hasField
    THEN [store |-> s, res |-> "raise", writes |-> 0]
    ELSE LET prefix_a == RSplitHead(s[a].label)
             prefix_b == RSplitHead(s[b].label)
             suffix_b == RSplitTail(s[b].label)
             suffix_a == RSplitTail(s[a].label)
             s1 == UpdateNote(s, a, prefix_a \o <<"@">> \o suffix_b)
             s2 == UpdateNote(s1, b, prefix_b \o <<"@">> \o suffix_a)
         IN  IF prefix_a # prefix_b
             THEN [store |-> s, res |-> "false", writes |-> 0]
             ELSE IF failAt = 1 THEN [store |-> s, res |-> "raise", writes |-> 0]
             ELSE IF failAt = 2 THEN [store |-> s1, res |-> "raise", writes |-> 1]
             ELSE [store |-> s2, res |-> "true", writes |-> 2]

----------------------------------------------------------------------------
(* move_card_up, move_card_down on visible_card_ids                        *)

\* visible_card_ids.index(selected_card_id)
IndexIn(v, id) == CHOOSE i \in 1..Len(v) : v[i] = id /\ \A j \in 1..(i - 1) : v[j] # id

\* v with the entries at positions i and j exchanged
Exchanged(v, i, j) == [v EXCEPT ![i] = v[j], ![j] = v[i]]

\* a variant that exchanges the two list entries whatever the swap returned
MoveCardAlways(s, v, id, dir, failAt) ==
    LET index == IndexIn(v, id)
        valid == IF dir < 0 THEN index > 1 ELSE index < Len(v)
        r == UpdateDeckIdsAfterSwap(s, NoteOf(id), NoteOf(v[index + dir]), failAt)
    IN  IF ~valid
        THEN [store |-> s, view |-> v, res |-> "false", writes |-> 0, other |-> 0]
        ELSE [store |-> r.store, view |-> Exchanged(v, index, index + dir),
              res |-> r.res, writes |-> r.writes, other |-> v[index + dir]]

\* move_card_up / move_card_down towards position index + dir (dir: -1 up, 1 down)
MoveCard(s, v, id, dir, failAt) ==
    LET index == IndexIn(v, id)
        valid == IF dir < 0 THEN index > 1 ELSE index < Len(v)
        r == UpdateDeckIdsAfterSwap(s, NoteOf(id), NoteOf(v[index + dir]), failAt)
    IN  IF ~valid
        THEN [store |-> s, view |-> v, res |-> "false", writes |-> 0, other |-> 0]
        ELSE IF r.res = "true"
        THEN [store |-> r.store, view |-> Exchanged(v, index, index + dir),
              res |-> "true", writes |-> r.writes, other |-> v[index + dir]]
        ELSE [store |-> r.store, view |-> v, res |-> r.res, writes |-> r.writes,
              other |-> v[index + dir]]

MoveCardUp(s, v, id, failAt) == MoveCard(s, v, id, 0 - 1, failAt)

MoveCardDown(s, v, id, failAt) == MoveCard(s, v, id, 1, failAt)

----------------------------------------------------------------------------
(* The state machine                                                       *)

Lbl(prefix, suffix) == prefix \o <<"@">> \o suffix

\* the 'Deck ID' values a collection starts with: well-formed ones (padded, one
\* unpadded), the empty field, and a suffix that is no number
InitLabels ==
    { Lbl(<<"A">>, <<"0", "0", "0", "0", "1">>),
      Lbl(<<"A">>, <<"0", "0", "0", "0", "3">>),
      Lbl(<<"A">>, <<"2">>),
      Lbl(<<"B">>, <<"0", "0", "0", "0", "1">>),
      Lbl(<<"A">>, <<"x">>),
      <<>> }

InitNotes ==
    {Note(d, TRUE, l) : d \in DeckIds, l \in InitLabels}
        \cup {Note(d, FALSE, <<>>) : d \in DeckIds}

Op(name, a, b, res, writes) ==
    [op |-> name, a |-> a, b |-> b, res |-> res, writes |-> writes]

Codec(phase, prefix, index, label, parsed) ==
    [phase |-> phase, prefix |-> prefix, index |-> index, label |-> label,
     parsed |-> parsed]

NotParsed == [ok |-> FALSE, prefix |-> <<>>, index |-> 0]

CodecIdle == Codec("idle", <<>>, 0, <<>>, NotParsed)

Ids == 1..Len(store)

\* the cards of the collection
CardIds == {AllCards(store)[i] : i \in 1..Len(AllCards(store))}

\* the cards the dialog lists
ViewIds == {view[i] : i \in 1..Len(view)}

Init ==
    /\ store \in UNION {[1..n -> InitNotes] : n \in 0..MaxInitNotes}
    /\ view = <<>>
    /\ view0 = <<>>
    /\ last = Op("init", 0, 0, "none", 0)
    /\ codec = CodecIdle

\* on_note_will_be_added(col, note, deck_id), and the host adding the note
AddNote(g, hasField, failAt) ==
    /\ view = <<>>
    /\ Len(store) < MaxRecords
    /\ LET r == AddDeckIndexField(store, g, failAt)
       IN  IF hasField
           THEN /\ store' = r.store
                /\ last' = Op("add", g, Len(store) + 1, "none", r.writes)
           ELSE /\ store' = Append(store, Note(g, FALSE, <<>>))
                /\ last' = Op("add", g, Len(store) + 1, "none", 0)
    /\ UNCHANGED <<view, view0, codec>>

\* reorder_deck_ids(deck_id)
Sweep(g, failAt) ==
    /\ view = <<>>
    /\ LET r == ReorderDeckIds(store, g, failAt)
       IN  /\ store' = r.store
           /\ last' = Op("sweep", g, 0, "none", r.writes)
    /\ UNCHANGED <<view, view0, codec>>

\* on_profile_did_open()
Reconcile(failAt) ==
    /\ view = <<>>
    /\ LET r == VerifyAndAddDeckIds(store, failAt)
       IN  /\ store' = r.store
           /\ last' = Op("reconcile", 0, 0, IF r.failed THEN "raise" ELSE "none",
                         r.writes)
    /\ UNCHANGED <<view, view0, codec>>

\* update_deck_ids_after_swap(card_a, card_b)
Swap(a, b, failAt) ==
    /\ view = <<>>
    /\ a # b
    /\ LET r == UpdateDeckIdsAfterSwap(store, NoteOf(a), NoteOf(b), failAt)
       IN  /\ store' = r.store
           /\ last' = Op("swap", a, b, r.res, r.writes)
    /\ UNCHANGED <<view, view0, codec>>

\* get_visible_card_ids(browser): the cards the browser shows, in the order of
\* their identifiers, for a search of the whole collection (q = 0) or of one
\* deck (q = deck id)
VisibleCardIds(s, q) == IF q = 0 THEN AllCards(s) ELSE CidsOf(s, q)

\* show_all_visible_cards(browser): no dialog without cards; the list is built
\* from note["Deck ID"] of every visible card, so the dialog opens only when
\* each of them has the field
OpenView(q) ==
    /\ view = <<>>
    /\ LET v == VisibleCardIds(store, q)
       IN  /\ Len(v) >= 1
           /\ \A i \in 1..Len(v) : store[NoteOf(v[i])].hasField
           /\ view' = v
           /\ view0' = [i \in 1..Len(v) |-> store[NoteOf(v[i])].label]
    /\ last' = Op("open", q, 0, "none", 0)
    /\ UNCHANGED <<store, codec>>

\* the dialog's Move Up button
MoveUp(id, failAt) ==
    /\ view # <<>>
    /\ LET r == MoveCardUp(store, view, id, failAt)
       IN  /\ store' = r.store
           /\ view' = r.view
           /\ last' = Op("up", id, r.other, r.res, r.writes)
    /\ UNCHANGED <<view0, codec>>

\* the dialog's Move Down button
MoveDown(id, failAt) ==
    /\ view # <<>>
    /\ LET r == MoveCardDown(store, view, id, failAt)
       IN  /\ store' = r.store
           /\ view' = r.view
           /\ last' = Op("down", id, r.other, r.res, r.writes)
    /\ UNCHANGED <<view0, codec>>

\* the dialog is closed (dialog.exec() returns)
CloseView ==
    /\ view # <<>>
    /\ view' = <<>>
    /\ view0' = <<>>
    /\ last' = Op("close", 0, 0, "none", 0)
    /\ UNCHANGED <<store, codec>>

\* the host moves a card to another deck
ExternalMove(c, g) ==
    /\ view = <<>>
    /\ store[c].deck # g
    /\ store' = [store EXCEPT ![c].deck = g]
    /\ last' = Op("extmove", c, g, "none", 0)
    /\ UNCHANGED <<view, view0, codec>>

\* the add-on's operations
Next ==
    \/ \E g \in DeckIds, h \in BOOLEAN : AddNote(g, h, 0)
    \/ \E g \in DeckIds : Sweep(g, 0)
    \/ Reconcile(0)
    \/ \E a, b \in CardIds : Swap(a, b, 0)
    \/ \E q \in {0} \cup DeckIds : OpenView(q)
    \/ \E id \in ViewIds : MoveUp(id, 0)
    \/ \E id \in ViewIds : MoveDown(id, 0)
    \/ CloseView

\* the add-on's operations, and the host moving cards between decks
NextMoved ==
    \/ Next
    \/ \E c \in Ids, g \in DeckIds : ExternalMove(c, g)

Spec == Init /\ [][Next]_vars

----------------------------------------------------------------------------
(* Labels as the specification reads them                                  *)

\* the label parses: it has an '@' and the text after the last one is digits
WellFormed(n) == n.hasField /\ HasAt(n.label) /\ IsDigit(SplitLast(n.label))

\* the index a well-formed label carries
IndexOf(n) == DigitsVal(SplitLast(n.label))

\* the prefix of a label
PrefixOf(n) == RSplitHead(n.label)

\* no two notes of one deck carry the same index
UniqueIndices(s) ==
    \A a, b \in 1..Len(s) :
        (a # b /\ s[a].deck = s[b].deck /\ WellFormed(s[a]) /\ WellFormed(s[b]))
            => IndexOf(s[a]) # IndexOf(s[b])

\* the indices carried by the notes of deck g
IndicesOf(s, g) ==
    {IndexOf(s[c]) : c \in {c \in 1..Len(s) : s[c].deck = g /\ WellFormed(s[c])}}

\* the number of notes of deck g that satisfy P
CountIn(s, g, P(_)) == Cardinality({c \in 1..Len(s) : s[c].deck = g /\ P(s[c])})

HasField(n) == n.hasField

\* every label of the collection is absent or names its note's deck
Consistent(s) ==
    \A c \in 1..Len(s) :
        s[c].hasField => (WellFormed(s[c]) /\ PrefixOf(s[c]) = DeckName(s[c].deck))

----------------------------------------------------------------------------
(* Specifications                                                          *)

\* core operations only, from a collection with unique indices per deck
InitUnique == Init /\ UniqueIndices(store)

SpecCore == InitUnique /\ [][Next]_vars

\* from a collection whose labels all name their note's deck, with the host
\* moving cards between decks
InitConsistent == Init /\ Consistent(store) /\ UniqueIndices(store)

SpecMoved == InitConsistent /\ [][NextMoved]_vars

\* the write the store rejects (mw.col.update_note raises): none, or the first,
\* second, ... write of an operation
FailAts == 0..MaxRecords

\* the operations, with the store rejecting a write
NextFail ==
    \/ \E g \in DeckIds, h \in BOOLEAN, f \in FailAts : AddNote(g, h, f)
    \/ \E g \in DeckIds, f \in FailAts : Sweep(g, f)
    \/ \E f \in FailAts : Reconcile(f)
    \/ \E a, b \in CardIds, f \in FailAts : Swap(a, b, f)

SpecFail == InitUnique /\ [][NextFail]_vars

\* the notes of a clean collection: the label is well-formed and names the
\* note's deck; the note has one card or two
CardNotes ==
    LET clean == {n \in InitNotes : WellFormed(n) /\ PrefixOf(n) = DeckName(n.deck)}
    IN  clean \cup {TwoCards(n) : n \in clean}

\* from a clean collection in which notes may have two cards
InitCards ==
    /\ store \in UNION {[1..n -> CardNotes] : n \in 0..MaxInitNotes}
    /\ view = <<>>
    /\ view0 = <<>>
    /\ last = Op("init", 0, 0, "none", 0)
    /\ codec = CodecIdle

\* the passes and the dialog over the notes the collection has
NextCards ==
    \/ \E g \in DeckIds : Sweep(g, 0)
    \/ Reconcile(0)
    \/ \E q \in {0} \cup DeckIds : OpenView(q)
    \/ \E id \in ViewIds : MoveUp(id, 0)
    \/ \E id \in ViewIds : MoveDown(id, 0)
    \/ CloseView

SpecCards == InitCards /\ [][NextCards]_vars

----------------------------------------------------------------------------
(* The codec on its own: a label is formatted, then parsed                 *)

\* the label read back: the prefix as reorder_deck_ids and the swap take it, the
\* index as get_max_deck_index takes it
ParseLabel(l) ==
    IF l # <<>> /\ HasAt(l) /\ IsDigit(SplitLast(l))
    THEN [ok |-> TRUE, prefix |-> RSplitHead(l), index |-> IntOf(SplitLast(l))]
    ELSE NotParsed

CodecPrefixes ==
    { <<"A">>, <<"B">>, <<>>, <<"@">>, <<"A", "@", "B">>, <<"A", "@", "1">>,
      <<"A", "@">>, <<"x", "-", "1">> }

CodecIndices == {1, 2, 9, 10, 99999, 100000, 100001, 123456}

InitCodec ==
    /\ store = <<>>
    /\ view = <<>>
    /\ view0 = <<>>
    /\ last = Op("init", 0, 0, "none", 0)
    /\ \E p \in CodecPrefixes, i \in CodecIndices :
          codec = Codec("input", p, i, <<>>, NotParsed)

CodecFormat ==
    /\ codec.phase = "input"
    /\ codec' = [codec EXCEPT !.phase = "formatted",
                              !.label = FormatLabel(codec.prefix, codec.index)]
    /\ UNCHANGED <<store, view, view0, last>>

CodecParse ==
    /\ codec.phase = "formatted"
    /\ codec' = [codec EXCEPT !.phase = "parsed", !.parsed = ParseLabel(codec.label)]
    /\ UNCHANGED <<store, view, view0, last>>

NextCodec == CodecFormat \/ CodecParse

SpecCodec == InitCodec /\ [][NextCodec]_vars

----------------------------------------------------------------------------
(* Claims                                                                  *)

\* C1: in a collection that starts with unique indices per deck, no two notes of
\* one deck carry the same index after any sequence of core operations.
C1_Uniqueness == UniqueIndices(store)

\* swap(a, b) must refuse: a label is absent or malformed, or the prefixes differ
SwapMustRefuse(a, b) ==
    \/ ~WellFormed(store[a])
    \/ ~WellFormed(store[b])
    \/ PrefixOf(store[a]) # PrefixOf(store[b])

\* C2: swap(a, b) returns false and changes no label whenever the prefixes of the
\* two labels differ or either label is malformed or absent (stated here for two
\* notes that carry the field; without it the code raises KeyError).
C2_SwapGuard ==
    [][\A a, b \in Ids :
          (Swap(a, b, 0) /\ store[a].hasField /\ store[b].hasField
                /\ SwapMustRefuse(a, b))
              => (last'.res = "false" /\ store' = store)]_vars

\* C4: swap and move_up / move_down between two notes of different decks (as the
\* store resolves them) return false and change no label (stated here for notes
\* that carry the field).
C4_CrossDeckRefused ==
    [][/\ \A a, b \in Ids :
            (Swap(a, b, 0) /\ store[a].deck # store[b].deck
                  /\ store[a].hasField /\ store[b].hasField)
                => (last'.res = "false" /\ store' = store)
       /\ \A id \in ViewIds :
            ( /\ MoveUp(id, 0) \/ MoveDown(id, 0)
              /\ last'.b # 0
              /\ store[id].deck # store[last'.b].deck )
                => (last'.res = "false" /\ store' = store /\ view' = view)]_vars

\* C5: after sweep(G) the indices carried by the notes of G are exactly 1..N, N
\* the number of labeled notes of G before the sweep (counted as the notes with
\* a well-formed label, or as the notes with the label field).
C5_ContiguousAfterSweep ==
    [][\A g \in DeckIds :
          Sweep(g, 0) =>
              \E N \in {CountIn(store, g, WellFormed), CountIn(store, g, HasField)} :
                  IndicesOf(store', g) = 1..N]_vars

\* C3: when swap(a, b) returns true, both prefixes are as before, a carries b's
\* former index and b carries a's.
C3_SwapExchanges ==
    [][\A a, b \in Ids :
          (Swap(a, b, 0) /\ last'.res = "true") =>
              /\ PrefixOf(store'[a]) = PrefixOf(store[a])
              /\ PrefixOf(store'[b]) = PrefixOf(store[b])
              /\ RSplitTail(store'[a].label) = RSplitTail(store[b].label)
              /\ RSplitTail(store'[b].label) = RSplitTail(store[a].label)
              /\ WellFormed(store[b]) =>
                    (WellFormed(store'[a]) /\ IndexOf(store'[a]) = IndexOf(store[b]))
              /\ WellFormed(store[a]) =>
                    (WellFormed(store'[b]) /\ IndexOf(store'[b]) = IndexOf(store[a]))]_vars

\* a swap returned true on two well-formed labels with different indices
C3_Witness ==
    /\ last.op = "swap" /\ last.res = "true"
    /\ WellFormed(store[last.a]) /\ WellFormed(store[last.b])
    /\ IndexOf(store[last.a]) # IndexOf(store[last.b])

\* C6: after reconcile, in every deck the notes that carry the field have exactly
\* the labels <deck name>@1 .. <deck name>@N, N their number, each once; notes
\* without the field are not written.
C6_ContiguousAfterReconcile ==
    [][Reconcile(0) =>
          /\ Len(store') = Len(store)
          /\ \A c \in Ids : ~store[c].hasField => store'[c] = store[c]
          /\ \A g \in DeckIds :
                LET F == {c \in Ids : store[c].deck = g /\ store[c].hasField}
                IN  /\ \A c \in F : store'[c].deck = g /\ store'[c].hasField
                    /\ {store'[c].label : c \in F}
                          = {FormatLabel(DeckName(g), i) : i \in 1..Cardinality(F)}]_vars

\* a reconcile that wrote, over two decks whose notes interleave in the store
C6_Witness ==
    /\ last.op = "reconcile" /\ last.res = "none" /\ last.writes > 0
    /\ Len(store) >= 3
    /\ store[1].hasField /\ store[2].hasField /\ store[3].hasField
    /\ store[1].deck = store[3].deck /\ store[1].deck # store[2].deck

C8_AssignAfterCleanSweep ==
    [][\A g \in DeckIds :
          AddNote(g, TRUE, 0) =>
              \E k \in {CountIn(store, g, WellFormed), CountIn(store, g, HasField)} :
                  /\ IndicesOf(SubSeq(store', 1, Len(store)), g) = 1..k
                  /\ store'[Len(store')].label = FormatLabel(DeckName(g), k + 1)]_vars

\* what move_up (dir = -1) / move_down (dir = 1) of id must have done
MoveOutcome(id, dir) ==
    LET i == IndexIn(view, id)
        hasNb == IF dir < 0 THEN i > 1 ELSE i < Len(view)
        nb == IF hasNb THEN view[i + dir] ELSE id
        swapOk == hasNb /\ UpdateDeckIdsAfterSwap(store, id, nb, 0).res = "true"
    IN  /\ last'.res \in {"true", "false"}
        /\ (last'.res = "true") <=> swapOk
        /\ last'.res = "true" =>
              /\ view' = [view EXCEPT ![i] = nb, ![i + dir] = id]
              /\ store' = UpdateDeckIdsAfterSwap(store, id, nb, 0).store
        /\ last'.res = "false" => (view' = view /\ store' = store)

\* C9: move_up / move_down returns true exactly when id has a neighbour in that
\* direction and the swap with it succeeds; then the view differs only by the
\* exchange of the two; otherwise the view and all labels are unchanged.
C9_MoveOutcome ==
    [][\A id \in ViewIds :
          /\ MoveUp(id, 0) => MoveOutcome(id, 0 - 1)
          /\ MoveDown(id, 0) => MoveOutcome(id, 1)]_vars

\* a move succeeded in a view that shows a third note as well
C9_Witness ==
    /\ last.op \in {"up", "down"} /\ last.res = "true"
    /\ Len(view) >= 3
    /\ \A i \in 1..Len(view) : WellFormed(store[view[i]])

\* C10: for every prefix P and index i >= 1, the label format(P, i) parses back
\* to exactly (P, i).
C10_RoundTrip ==
    codec.phase = "parsed"
        => codec.parsed = [ok |-> TRUE, prefix |-> codec.prefix, index |-> codec.index]

\* a label of a prefix with an '@' and an index wider than five digits was parsed
C10_Witness ==
    /\ codec.phase = "parsed"
    /\ HasAt(codec.prefix)
    /\ codec.index >= 100000

\* C11: sweep(G) keeps the relative order of G's notes: of two notes with valid
\* indices ia < ib before the sweep, the first has the smaller index after it;
\* and every labeled note of G keeps the prefix its label had.
C11_SweepKeepsOrder ==
    [][\A g \in DeckIds :
          Sweep(g, 0) =>
              /\ \A a, b \in Ids :
                    ( /\ store[a].deck = g /\ store[b].deck = g
                      /\ WellFormed(store[a]) /\ WellFormed(store[b])
                      /\ IndexOf(store[a]) < IndexOf(store[b]) )
                        => /\ WellFormed(store'[a]) /\ WellFormed(store'[b])
                           /\ IndexOf(store'[a]) < IndexOf(store'[b])
              /\ \A c \in Ids :
                    (store[c].deck = g /\ store[c].hasField)
                        => PrefixOf(store'[c]) = PrefixOf(store[c])]_vars

\* a sweep has renumbered a deck in which a note stored later carries the
\* smaller index: the numbering followed the former indices, not the store
C11_Witness ==
    /\ last.op = "sweep" /\ last.writes >= 2
    /\ \E a, b \in Ids :
          /\ a < b
          /\ store[a].deck = last.a /\ store[b].deck = last.a
          /\ WellFormed(store[a]) /\ WellFormed(store[b])
          /\ IndexOf(store[a]) > IndexOf(store[b])

\* C12: when deck G holds a note whose label is malformed or absent, sweep(G)
\* still renumbers G's validly labeled notes: in ascending order of their former
\* index, contiguously, after the (at most B) positions the B bad notes take at
\* the front.
C12_SweepAbsorbsBadLabels ==
    [][\A g \in DeckIds :
          LET valid == {c \in Ids : store[c].deck = g /\ WellFormed(store[c])}
              bad == {c \in Ids : store[c].deck = g /\ ~WellFormed(store[c])}
          IN  (Sweep(g, 0) /\ bad # {}) =>
                  /\ \A c \in valid : WellFormed(store'[c])
                  /\ \E k \in 0..Cardinality(bad) :
                        {IndexOf(store'[c]) : c \in valid}
                            = (k + 1)..(k + Cardinality(valid))
                  /\ \A a, b \in valid :
                        IndexOf(store[a]) < IndexOf(store[b])
                            => IndexOf(store'[a]) < IndexOf(store'[b])]_vars

\* C13: reconcile numbers each deck by the lexical order of the raw labels: of
\* two notes of one deck that carry the field, the one whose label is lexically
\* smaller (for equal labels, the one stored first) has the smaller index after
\* reconcile.
C13_ReconcileLexicalOrder ==
    [][Reconcile(0) =>
          \A a, b \in Ids :
              ( /\ a # b
                /\ store[a].deck = store[b].deck
                /\ store[a].hasField /\ store[b].hasField
                /\ \/ StrLess(store[a].label, store[b].label)
                   \/ (store[a].label = store[b].label /\ a < b) )
                  => /\ WellFormed(store'[a]) /\ WellFormed(store'[b])
                     /\ IndexOf(store'[a]) < IndexOf(store'[b])]_vars

\* a reconcile wrote, and left a deck in which a note stored later carries the
\* smaller index: the numbering followed the labels, not the store
C13_Witness ==
    /\ last.op = "reconcile" /\ last.res = "none" /\ last.writes >= 1
    /\ \E a, b \in Ids :
          /\ a < b
          /\ store[a].deck = store[b].deck
          /\ WellFormed(store[a]) /\ WellFormed(store[b])
          /\ IndexOf(store[a]) > IndexOf(store[b])

\* C14: swap is not atomic.  When the guard of swap(a, b) passes and the store
\* accepts the write of a and rejects the write of b, a carries b's former
\* index, b and every other note are as before (so a and b share one index),
\* and the failure reaches the caller instead of a true / false result.
C14_SwapNotAtomic ==
    [][\A a, b \in Ids :
          ( /\ last'.op = "swap"
            /\ store[a].hasField /\ store[b].hasField
            /\ PrefixOf(store[a]) = PrefixOf(store[b])
            /\ Swap(a, b, 2) )
              => /\ last'.res = "raise"
                 /\ last'.writes = 1
                 /\ store'[a].label
                       = PrefixOf(store[a]) \o <<"@">> \o RSplitTail(store[b].label)
                 /\ \A c \in Ids : c # a => store'[c] = store[c]
                 /\ (WellFormed(store[a]) /\ WellFormed(store[b]))
                       => /\ WellFormed(store'[a])
                          /\ IndexOf(store'[a]) = IndexOf(store[b])
                          /\ IndexOf(store'[b]) = IndexOf(store[b])]_vars

\* in a collection that started with unique indices, a swap was cut short
\* after its first write and left two notes of one deck with the same index
C14_Witness ==
    /\ last.op = "swap" /\ last.res = "raise" /\ last.writes = 1
    /\ store[last.a].deck = store[last.b].deck
    /\ WellFormed(store[last.a]) /\ WellFormed(store[last.b])
    /\ PrefixOf(store[last.a]) = PrefixOf(store[last.b])
    /\ IndexOf(store[last.a]) = IndexOf(store[last.b])

\* sweep(g) with its k-th write rejected: the k-1 notes that come first in the
\* sweep's order have their final labels, the others their old ones, and the
\* caller sees no error
SweepStopsAt(g, k) ==
    LET full == ReorderDeckIds(store, g, 0)
        G == {c \in Ids : store[c].deck = g}
    IN  (last'.op = "sweep" /\ k >= 1 /\ Sweep(g, k) /\ k <= full.writes) =>
            /\ last'.res # "raise"
            /\ last'.writes = k - 1
            /\ \E W \in SUBSET G :
                  /\ Cardinality(W) = k - 1
                  /\ \A c \in W : store'[c] = full.store[c]
                  /\ \A c \in Ids \ W : store'[c] = store[c]
                  /\ \A c \in W, d \in G \ W :
                        IndexOf(full.store[c]) < IndexOf(full.store[d])

\* reconcile with its k-th write rejected: the first k-1 notes that needed a
\* write have their final labels, the others their old ones, and the caller
\* sees no error
ReconcileStopsAt(k) ==
    LET full == VerifyAndAddDeckIds(store, 0)
        due == {c \in Ids : full.store[c] # store[c]}
    IN  (last'.op = "reconcile" /\ k >= 1 /\ Reconcile(k) /\ k <= full.writes) =>
            /\ last'.res # "raise"
            /\ last'.writes = k - 1
            /\ \E W \in SUBSET due :
                  /\ Cardinality(W) = k - 1
                  /\ \A c \in W : store'[c] = full.store[c]
                  /\ \A c \in Ids \ W : store'[c] = store[c]
                  /\ \A c \in W, d \in due \ W :
                        ~StrLess(store[d].label, store[c].label)

\* C15: when the store rejects the k-th write of sweep(G) or of reconcile, the
\* pass stops, its first k-1 writes stay, the notes not yet visited keep their
\* labels, and the failure is caught inside the pass: no error reaches the
\* caller.
C15_PassFailureCaught ==
    [][/\ \A g \in DeckIds, k \in FailAts : SweepStopsAt(g, k)
       /\ \A k \in FailAts : ReconcileStopsAt(k)]_vars

\* C16: in a dialog whose cards all had well-formed labels when it opened, after
\* any sequence of moves the card now at position p shows the label that
\* position p showed at the opening: cards move between positions, labels stay.
C16_ViewPositionsKeepLabels ==
    ( /\ view # <<>>
      /\ \A p \in 1..Len(view0) : HasAt(view0[p]) /\ IsDigit(SplitLast(view0[p])) )
        => \A p \in 1..Len(view) : store[NoteOf(view[p])].label = view0[p]

\* C17 (frame): swap and move_up / move_down change no label but those of the
\* two notes involved; sweep(G) and assign_label(r, G) change no label outside
\* G; no operation removes a note, adds one (but assign_label's new note),
\* moves a note to another deck, or gives a label to a note without the field.
C17_Frame ==
    [][/\ Len(store') >= Len(store)
       /\ Len(store') # Len(store)
             => (last'.op = "add" /\ Len(store') = Len(store) + 1)
       /\ \A c \in Ids :
             /\ store'[c].deck = store[c].deck
             /\ store'[c].hasField = store[c].hasField
             /\ ~store[c].hasField => store'[c] = store[c]
       /\ \A a, b \in CardIds :
             (last'.op = "swap" /\ Swap(a, b, 0))
                 => \A c \in Ids \ {NoteOf(a), NoteOf(b)} : store'[c] = store[c]
       /\ \A id \in ViewIds :
             (last'.op \in {"up", "down"} /\ (MoveUp(id, 0) \/ MoveDown(id, 0)))
                 => \A c \in Ids \ {NoteOf(id), NoteOf(last'.b)} : store'[c] = store[c]
       /\ \A g \in DeckIds :
             ( /\ last'.op \in {"sweep", "add"}
               /\ Sweep(g, 0) \/ AddNote(g, TRUE, 0) \/ AddNote(g, FALSE, 0) )
                 => \A c \in Ids : store[c].deck # g => store'[c] = store[c]]_vars

\* a note was added to a deck whose sweep rewrote labels, while another deck
\* holds a note that still carries index 3
C17_Witness ==
    /\ last.op = "add" /\ last.writes >= 1
    /\ \E c \in Ids :
          /\ store[c].deck # last.a
          /\ WellFormed(store[c])
          /\ IndexOf(store[c]) = 3

\* every note carries a well-formed label that names its deck, index below 100000
Clean(s) ==
    \A c \in 1..Len(s) :
        /\ WellFormed(s[c])
        /\ PrefixOf(s[c]) = DeckName(s[c].deck)
        /\ IndexOf(s[c]) < 100000

\* the sweep of every deck has run: sweeping any deck again changes nothing
SweptAll(s) == \A g \in DeckIds : ReorderDeckIds(s, g, 0).store = s

\* C18: sweep and reconcile agree on clean collections: once every deck is
\* swept, a reconcile writes nothing; and a sweep right after a reconcile
\* changes no label.
C18_SweepReconcileAgree ==
    [][/\ (last'.op = "reconcile" /\ Reconcile(0) /\ Clean(store) /\ SweptAll(store))
             => last'.writes = 0
       /\ \A g \in DeckIds :
             ( /\ last'.op = "sweep" /\ last.op = "reconcile" /\ last.res = "none"
               /\ Sweep(g, 0) /\ Clean(store) )
                 => store' = store]_vars

====
